---- MODULE Spec2Model ----
(***************************************************************************)
(* CashCalendarAPI: the recurrence projector (engine.run_projection), the  *)
(* balance aggregator (engine.get_calendar_data), the storage operations   *)
(* of database.py they rest on, and the request handlers of app.py that    *)
(* call them.                                                              *)
(*                                                                         *)
(* Dates are day numbers counted from 2024-01-01 (day 0); the calendar     *)
(* arithmetic below turns them into (year, month, day) and back, so that   *)
(* month stepping clamps at month ends as dateutil.relativedelta does.     *)
(* Amounts are integers (whole currency units).  The store hands dates to  *)
(* the engine in the 'YYYY-MM-DD' text form that the engine parses; the    *)
(* text forms that the code itself produces are modelled by DateStr.       *)
(***************************************************************************)
EXTENDS Integers, Sequences, FiniteSets, TLC

\* ------------------------------------------------------------------ bounds

\* Last day number any input date may take (2024-04-01).
MaxDate == 91
\* Most rows the scheduled_transactions table ever receives.
MaxRules == 2
\* Most rows the transactions table ever receives (SERIAL ids 1..MaxTxnId).
MaxTxnId == 6
\* Most requests in one behaviour that add, change or delete one instance
\* or delete one rule.
MaxEdits == 1
\* Ids table categories may hand out to categories a client adds.
MaxCategoryId == 11
\* Instances one run is given room for, for each rule of the owner, where a
\* run is only started if it is sure to stay within MaxTxnId.
MaxPerRule == 2

\* --------------------------------------------------------------- calendar

\* Day 0 of the day numbering: 2024-01-01.
Epoch == <<2024, 1, 1>>
BaseYear == Epoch[1]

NULL == 0

IsLeap(y) == (y % 4 = 0 /\ y % 100 # 0) \/ y % 400 = 0

DaysInMonth(y, m) ==
    IF m = 2 THEN (IF IsLeap(y) THEN 29 ELSE 28)
    ELSE IF m \in {4, 6, 9, 11} THEN 30 ELSE 31

DaysInYear(y) == IF IsLeap(y) THEN 366 ELSE 365

RECURSIVE DaysBeforeYear(_)
DaysBeforeYear(y) ==
    IF y <= BaseYear THEN 0 ELSE DaysBeforeYear(y - 1) + DaysInYear(y - 1)

RECURSIVE DaysBeforeMonth(_, _)
DaysBeforeMonth(y, m) ==
    IF m <= 1 THEN 0 ELSE DaysBeforeMonth(y, m - 1) + DaysInMonth(y, m - 1)

\* datetime.date(y, m, d) as a day number.
ToOrdinal(y, m, d) == DaysBeforeYear(y) + DaysBeforeMonth(y, m) + (d - 1)

RECURSIVE YearOf(_, _)
YearOf(n, y) == IF n < DaysBeforeYear(y + 1) THEN y ELSE YearOf(n, y + 1)

RECURSIVE MonthOf(_, _, _)
MonthOf(r, y, m) ==
    IF r < DaysBeforeMonth(y, m + 1) THEN m ELSE MonthOf(r, y, m + 1)

\* The (year, month, day) of a day number.
FromOrdinal(n) ==
    LET y == YearOf(n, BaseYear)
        r == n - DaysBeforeYear(y)
        m == MonthOf(r, y, 1)
    IN  <<y, m, r - DaysBeforeMonth(y, m) + 1>>

Min(a, b) == IF a <= b THEN a ELSE b

\* date + relativedelta(months=k): same day of month, clamped to the
\* length of the target month.
AddMonths(n, k) ==
    LET ymd == FromOrdinal(n)
        mm  == (ymd[2] - 1) + k
        y2  == ymd[1] + (mm \div 12)
        m2  == (mm % 12) + 1
    IN  ToOrdinal(y2, m2, Min(ymd[3], DaysInMonth(y2, m2)))

\* date + relativedelta(years=k): Feb 29 clamps to Feb 28.
AddYears(n, k) == AddMonths(n, 12 * k)

\* ------------------------------------------------------------ date texts

\* A date as text: 'YYYY-MM-DD' followed by tail ('' for a date,
\* 'T00:00:00' for a datetime at midnight).
\* date.isoformat()
IsoDate(n) ==
    LET ymd == FromOrdinal(n)
    IN  [y |-> ymd[1], m |-> ymd[2], d |-> ymd[3], tail |-> ""]

\* datetime.isoformat(): the time of day is part of the text.
IsoDateTime(n) ==
    LET ymd == FromOrdinal(n)
    IN  [y |-> ymd[1], m |-> ymd[2], d |-> ymd[3], tail |-> "T00:00:00"]

ValueError == -1

\* datetime.strptime(s, "%Y-%m-%d"): the whole text must match the format
\* and name a day that exists; anything else raises ValueError.
Strptime(s) ==
    IF s.tail # "" THEN ValueError
    ELSE IF s.m \notin 1..12 THEN ValueError
    ELSE IF s.d \notin 1..DaysInMonth(s.y, s.m) THEN ValueError
    ELSE ToOrdinal(s.y, s.m, s.d)

\* ------------------------------------------------------------------ state

Owners == {"A", "B"}

VARIABLES
    users,          \* user_id values of the rows of table users
    user_settings,  \* user_id -> [start_balance, start_date], or NoSettings
    schedules,      \* the rows of table scheduled_transactions
    transactions,   \* the rows of table transactions
    nextScheduleId, \* the SERIAL behind scheduled_transactions.schedule_id
    nextTxnId,      \* the SERIAL behind transactions.transaction_id
    resp,           \* what the last operation returned to its caller
    lastOp,         \* history: the last operation and its arguments
    snap,           \* history: table transactions before the last operation, if that
                    \* was a projection or the update or deletion of an instance
    origin,         \* history: transaction_id -> the rule row the Projector made it from
    edits,          \* history: requests so far that add, change or delete one instance,
                    \* rule or category
    procs,          \* the run_projection calls in progress, one per worker
    categories,     \* the rows of table categories
    nextCategoryId  \* the SERIAL behind categories.category_id

vars == <<users, user_settings, schedules, transactions, nextScheduleId,
          nextTxnId, resp, lastOp, snap, origin, edits, procs, categories,
          nextCategoryId>>

NoDate == -1
NoSettings == [start_balance |-> 0, start_date |-> NoDate]

\* --------------------------------------------------------------- database

\* database.get_settings: None when the owner has no row.
get_settings(us, u) == us[u]

\* database.get_scheduled_transactions: the owner's rules.
get_scheduled_transactions(S, u) == {s \in S : s.user_id = u}

RECURSIVE MaxOf(_)
MaxOf(D) ==
    IF D = {} THEN NoDate
    ELSE LET d == CHOOSE x \in D : TRUE
             r == MaxOf(D \ {d})
         IN  IF d > r THEN d ELSE r

\* get_last_generated_date as it would be if only the estimated rows of
\* a rule counted for its watermark.
get_last_generated_date_UnconfirmedOnly(T, u, sid) ==
    MaxOf({t.date : t \in {x \in T : /\ x.user_id = u /\ x.schedule_id = sid
                                    /\ x.is_confirmed = 0}})

\* database.get_last_generated_date: SELECT MAX(date) over the owner's
\* instances of the rule; NULL (NoDate) when there is none.
get_last_generated_date(T, u, sid) ==
    MaxOf({t.date : t \in {x \in T : x.user_id = u /\ x.schedule_id = sid}})

\* add_transaction as it would be did it first delete the rows of the same
\* rule: the rule's instances are regenerated, not added to.
add_transaction_ReplacingRuleRows(T, id, u, date, category_id, description, amount, is_confirmed, sid) ==
    {t \in T : sid = NULL \/ t.schedule_id # sid}
    \cup {[transaction_id |-> id, user_id |-> u, schedule_id |-> sid,
            category_id |-> category_id, date |-> date,
            description |-> description, amount |-> amount,
            is_confirmed |-> is_confirmed]}

\* database.add_transaction: one INSERT; the table has no uniqueness
\* constraint besides the SERIAL primary key.
add_transaction(T, id, u, date, category_id, description, amount, is_confirmed, sid) ==
    T \cup {[transaction_id |-> id, user_id |-> u, schedule_id |-> sid,
             category_id |-> category_id, date |-> date,
             description |-> description, amount |-> amount,
             is_confirmed |-> is_confirmed]}

\* get_all_transactions_after as it would be without the date condition
\* of its WHERE clause.
get_all_transactions_after_AllDates(T, u, date) ==
    {t \in T : t.user_id = u}

\* database.get_all_transactions_after: the owner's instances dated on or
\* after date.
get_all_transactions_after(T, u, date) ==
    {t \in T : t.user_id = u /\ t.date >= date}

\* database.update_transaction: every column but the rule id is
\* overwritten on the owner's row with that id.
update_transaction(T, u, id, date, category_id, description, amount, is_confirmed) ==
    {IF t.transaction_id = id /\ t.user_id = u
     THEN [t EXCEPT !.date = date, !.category_id = category_id,
                    !.description = description, !.amount = amount,
                    !.is_confirmed = is_confirmed]
     ELSE t : t \in T}

\* database.delete_transaction
delete_transaction(T, u, id) ==
    {t \in T : ~(t.transaction_id = id /\ t.user_id = u)}

\* FOREIGN KEY (schedule_id) ... ON DELETE SET NULL: what deleting the
\* rules in gone does to table transactions.
OnDeleteSetNull(T, gone) ==
    {IF t.schedule_id \in {s.schedule_id : s \in gone}
     THEN [t EXCEPT !.schedule_id = NULL] ELSE t : t \in T}

\* delete_scheduled_transaction as it would be did it remove the rule's
\* estimated instances only and leave the rule itself in place.
delete_scheduled_transaction_KeepsRule(S, T, u, sid, delete_future) ==
    [schedules |-> S,
     txns |-> IF delete_future
              THEN {t \in T : ~(/\ t.schedule_id = sid /\ t.user_id = u
                                /\ t.is_confirmed = 0)}
              ELSE T]

\* database.delete_scheduled_transaction: the rule is deleted first (the
\* connection autocommits, so the foreign key acts at once), then, with
\* delete_future, the unconfirmed rows still carrying the rule id.
delete_scheduled_transaction(S, T, u, sid, delete_future) ==
    LET gone == {s \in S : s.schedule_id = sid /\ s.user_id = u}
        T1 == OnDeleteSetNull(T, gone)
    IN  [schedules |-> S \ gone,
         txns |-> IF delete_future
                  THEN {t \in T1 : ~(t.schedule_id = sid /\ t.user_id = u
                                     /\ t.is_confirmed = 0)}
                  ELSE T1]

\* The categories every new owner is given, as (name, type).
default_categories ==
    <<<<"Paycheck", "credit">>, <<"Rent", "debit">>, <<"Groceries", "debit">>,
      <<"Utilities", "debit">>, <<"Other", "debit">>>>

\* FOREIGN KEY (category_id) REFERENCES categories: NULL or the id of a row
\* of table categories, of whatever owner.
CategoryExists(C, category_id) ==
    category_id = NULL \/ \E c \in C : c.category_id = category_id

\* database.add_category
add_category(C, id, u, name, type) ==
    C \cup {[category_id |-> id, user_id |-> u, name |-> name, type |-> type]}

\* database.update_category
update_category(C, u, category_id, name, type) ==
    {IF c.category_id = category_id /\ c.user_id = u
     THEN [c EXCEPT !.name = name, !.type = type] ELSE c : c \in C}

\* FOREIGN KEY (category_id) ... ON DELETE SET NULL: what deleting the
\* categories in gone does to the rows of a table that refers to them.
CategorySetNull(R, gone) ==
    {IF r.category_id \in {c.category_id : c \in gone}
     THEN [r EXCEPT !.category_id = NULL] ELSE r : r \in R}

\* database.delete_category: the owner's category with that id is deleted,
\* and the foreign keys clear it on every rule and instance that carries it.
delete_category(C, S, T, u, category_id) ==
    LET gone == {c \in C : c.category_id = category_id /\ c.user_id = u}
    IN  [categories |-> C \ gone,
         schedules |-> CategorySetNull(S, gone),
         txns |-> CategorySetNull(T, gone)]

\* ORDER BY t.date, t.transaction_id
RECURSIVE OrderByDateId(_)
OrderByDateId(R) ==
    IF R = {} THEN <<>>
    ELSE LET first == CHOOSE r \in R : \A q \in R :
                          \/ r.date < q.date
                          \/ r.date = q.date /\ r.transaction_id <= q.transaction_id
         IN  <<first>> \o OrderByDateId(R \ {first})

\* LEFT JOIN categories c ON t.category_id = c.category_id: each row with
\* the name and type of the category it refers to, or NULL for both.
LeftJoinCategories(R, C) ==
    {LET m == {c \in C : c.category_id = r.category_id}
     IN  IF m = {} THEN r @@ [name |-> "NULL", type |-> "NULL"]
         ELSE LET c == CHOOSE x \in m : TRUE
              IN  r @@ [name |-> c.name, type |-> c.type] : r \in R}

\* ----------------------------------------------------------------- engine

\* Frequencies as it would be had 'yearly' been given a branch of the final
\* if / elif chain without a step of its own.
Frequencies_WithYearly ==
    {"daily", "weekly", "bi-weekly", "monthly", "bi-monthly", "yearly"}

Frequencies == {"daily", "weekly", "bi-weekly", "monthly", "bi-monthly"}

\* StepDate as it would be with a month taken as thirty days.
StepDate_MonthIsThirtyDays(frequency, d) ==
    IF frequency = "daily" THEN d + 1
    ELSE IF frequency = "weekly" THEN d + 7
    ELSE IF frequency = "bi-weekly" THEN d + 14
    ELSE IF frequency = "monthly" THEN d + 30
    ELSE IF frequency = "bi-monthly" THEN d + 60
    ELSE d

\* The if / elif chain that advances a date by one period.  A frequency
\* outside the enumeration matches no branch: the date is left as it is.
StepDate(frequency, d) ==
    IF frequency = "daily" THEN d + 1
    ELSE IF frequency = "weekly" THEN d + 7
    ELSE IF frequency = "bi-weekly" THEN d + 14
    ELSE IF frequency = "monthly" THEN AddMonths(d, 1)
    ELSE IF frequency = "bi-monthly" THEN AddMonths(d, 2)
    ELSE d

\* StartCursor as it would be without the watermark: every run starts
\* again from the rule's start date.
StartCursor_AlwaysStartDate(T, u, s) == s.start_date

\* The starting cursor of a rule: its start date, or one period after the
\* date of its latest instance.
StartCursor(T, u, s) ==
    LET last == get_last_generated_date(T, u, s.schedule_id)
    IN  IF last # NoDate THEN StepDate(s.frequency, last) ELSE s.start_date

\* LoopEndDate as it would be had lines 51-54 been left out: the rule's end
\* date is never looked at.
LoopEndDate_IgnoresRuleEnd(s, projection_end_date) == projection_end_date

\* The loop's end date: the horizon, or the rule's end date if earlier.
LoopEndDate(s, projection_end_date) ==
    IF s.end_date # NoDate /\ s.end_date < projection_end_date
    THEN s.end_date ELSE projection_end_date

\* The while loop of one rule: the dates for which add_transaction is
\* called, in order.  The final else leaves the loop after the first
\* iteration when the frequency matches no branch.  room is the number of
\* rows the model still lets the loop add: a run that needs more is cut
\* there and is beyond the model's bound.
RECURSIVE GenLoop(_, _, _, _, _)
GenLoop(current_date, loop_end_date, start_date, frequency, room) ==
    IF current_date > loop_end_date \/ room = 0 THEN <<>>
    ELSE LET add == current_date >= start_date
         IN  (IF add THEN <<current_date>> ELSE <<>>)
             \o (IF frequency \in Frequencies
                 THEN GenLoop(StepDate(frequency, current_date), loop_end_date,
                              start_date, frequency,
                              IF add THEN room - 1 ELSE room)
                 ELSE <<>>)

\* AddAll as it would be had line 66 passed is_confirmed=1.
RECURSIVE AddAll_Confirmed(_, _, _, _, _)
AddAll_Confirmed(T, id, u, s, dates) ==
    IF dates = <<>> THEN T
    ELSE AddAll_Confirmed(
             add_transaction(T, id, u, Strptime(IsoDate(Head(dates))),
                             s.category_id, s.description, s.amount, 1,
                             s.schedule_id),
             id + 1, u, s, Tail(dates))

\* add_transaction for every date of the loop, ids taken from the SERIAL.
RECURSIVE AddAll(_, _, _, _, _)
AddAll(T, id, u, s, dates) ==
    IF dates = <<>> THEN T
    ELSE AddAll(add_transaction(T, id, u, Strptime(IsoDate(Head(dates))),
                                s.category_id, s.description, s.amount, 0,
                                s.schedule_id),
                id + 1, u, s, Tail(dates))

\* One iteration of "for schedule in schedules".
ProjectSchedule(st, u, s, projection_end_date) ==
    LET dates == GenLoop(StartCursor(st.txns, u, s),
                         LoopEndDate(s, projection_end_date),
                         s.start_date, s.frequency,
                         MaxTxnId + 2 - st.nextId)
    IN  [txns   |-> AddAll(st.txns, st.nextId, u, s, dates),
         nextId |-> st.nextId + Len(dates),
         raised |-> st.raised]

RECURSIVE ProjectAll(_, _, _, _)
ProjectAll(st, u, order, projection_end_date) ==
    IF order = <<>> THEN st
    ELSE ProjectAll(ProjectSchedule(st, u, Head(order), projection_end_date),
                    u, Tail(order), projection_end_date)

\* engine.run_projection(conn, user_id, projection_end_date_str); order is
\* the sequence of rows get_scheduled_transactions returned.
run_projection(T, nid, u, projection_end_date_str, order) ==
    LET st0 == [txns |-> T, nextId |-> nid, raised |-> ""]
        projection_end_date == Strptime(projection_end_date_str)
    IN  IF projection_end_date = ValueError
        THEN [st0 EXCEPT !.raised = "ValueError"]
        ELSE ProjectAll(st0, u, order, projection_end_date)

\* ------------------------------------------------------------- aggregator

RECURSIVE SumAmounts(_)
SumAmounts(X) ==
    IF X = {} THEN 0
    ELSE LET t == CHOOSE x \in X : TRUE
         IN  t.amount + SumAmounts(X \ {t})

RECURSIVE MinOf(_)
MinOf(D) ==
    LET d == CHOOSE x \in D : TRUE
    IN  IF D = {d} THEN d
        ELSE LET r == MinOf(D \ {d}) IN IF d < r THEN d ELSE r

\* DailySummary as it would be had the rows with amount 0 been dropped
\* before the grouping.
DailySummary_ZeroAmountDropped(loaded, d) ==
    LET bucket == {t \in loaded : t.date = d /\ t.amount # 0}
        credits == SumAmounts({t \in bucket : t.amount > 0})
        debits  == SumAmounts({t \in bucket : t.amount <= 0})
    IN  [credits |-> credits, debits |-> debits,
         is_actual |-> IF \A t \in bucket : t.is_confirmed = 1 THEN 1 ELSE 0,
         net_change |-> credits + debits]

\* One row of daily_summary: the bucket of day d.  An empty bucket inside
\* the grouped range sums to 0 and counts as actual.
DailySummary(loaded, d) ==
    LET bucket == {t \in loaded : t.date = d}
        credits == SumAmounts({t \in bucket : t.amount > 0})
        debits  == SumAmounts({t \in bucket : t.amount <= 0})
    IN  [credits |-> credits, debits |-> debits,
         is_actual |-> IF \A t \in bucket : t.is_confirmed = 1 THEN 1 ELSE 0,
         net_change |-> credits + debits]

\* The row of calendar_df for day d after the left merge and fillna(0).
\* daily_summary has one row per day from the earliest to the latest loaded
\* instance; a day of the view outside that range finds no row, and
\* fillna(0) turns its four missing values into 0.  With nothing loaded the
\* columns are set directly, is_actual to True (1).
MergedRow(loaded, d) ==
    IF loaded = {}
    THEN [date |-> d, credits |-> 0, debits |-> 0, is_actual |-> 1, net_change |-> 0]
    ELSE LET dates == {t.date : t \in loaded}
         IN  IF MinOf(dates) <= d /\ d <= MaxOf(dates)
             THEN [date |-> d] @@ DailySummary(loaded, d)
             ELSE [date |-> d, credits |-> 0, debits |-> 0, is_actual |-> 0,
                   net_change |-> 0]

\* Finish as it would be without line 153: a row before the start date
\* shows the balance carried so far instead of 0.
RECURSIVE Finish_BalanceBeforeStart(_, _, _, _)
Finish_BalanceBeforeStart(rows, i, acc, settings) ==
    IF i > Len(rows) THEN <<>>
    ELSE LET r == rows[i]
             counted == r.date >= settings.start_date
             bal == IF counted THEN acc + r.net_change ELSE acc
         IN  <<[date |-> r.date, credits |-> r.credits, debits |-> r.debits,
                net_change |-> r.net_change, balance |-> bal,
                is_actual |-> (r.date < settings.start_date) \/ (r.is_actual = 1)]>>
             \o Finish_BalanceBeforeStart(rows, i + 1, bal, settings)

\* Finish as it would be with the day's net change in place of the
\* cumulative sum of line 147.
RECURSIVE Finish_NoCumSum(_, _, _, _)
Finish_NoCumSum(rows, i, acc, settings) ==
    IF i > Len(rows) THEN <<>>
    ELSE LET r == rows[i]
             counted == r.date >= settings.start_date
         IN  <<[date |-> r.date, credits |-> r.credits, debits |-> r.debits,
                net_change |-> r.net_change,
                balance |-> IF counted THEN acc + r.net_change ELSE 0,
                is_actual |-> (r.date < settings.start_date) \/ (r.is_actual = 1)]>>
             \o Finish_NoCumSum(rows, i + 1, acc, settings)

\* Steps 5 and 6 over the rows in date order: the cumulative sum runs over
\* the rows of the frame dated on or after the start date; rows before it
\* get balance 0; is_actual is (date < start) or (is_actual == True).
RECURSIVE Finish(_, _, _, _)
Finish(rows, i, acc, settings) ==
    IF i > Len(rows) THEN <<>>
    ELSE LET r == rows[i]
             counted == r.date >= settings.start_date
             bal == IF counted THEN acc + r.net_change ELSE acc
         IN  <<[date |-> r.date, credits |-> r.credits, debits |-> r.debits,
                net_change |-> r.net_change,
                balance |-> IF counted THEN bal ELSE 0,
                is_actual |-> (r.date < settings.start_date) \/ (r.is_actual = 1)]>>
             \o Finish(rows, i + 1, bal, settings)

EmptyFrame == [raised |-> "", columns |-> {}, rows |-> <<>>]

CalendarColumns == {"date", "credits", "debits", "is_actual", "net_change", "balance"}

\* get_calendar_data as it would be had line 107 built a range that stops
\* one day short of the view's end.
get_calendar_data_EndExclusive(us, T, u, view_start_date_str, view_end_date_str) ==
    LET settings == get_settings(us, u)
        view_start_dt == Strptime(view_start_date_str)
        view_end_dt == Strptime(view_end_date_str)
    IN  IF settings = NoSettings THEN EmptyFrame
        ELSE IF view_start_dt = ValueError \/ view_end_dt = ValueError
        THEN [raised |-> "ValueError", columns |-> {}, rows |-> <<>>]
        ELSE LET loaded == get_all_transactions_after(T, u, settings.start_date)
                 n == IF view_end_dt > view_start_dt
                      THEN view_end_dt - view_start_dt ELSE 0
                 merged == [i \in 1..n |-> MergedRow(loaded, view_start_dt + i - 1)]
             IN  [raised |-> "", columns |-> CalendarColumns,
                  rows |-> Finish(merged, 1, settings.start_balance, settings)]

\* engine.get_calendar_data(conn, user_id, view_start_date_str, view_end_date_str)
get_calendar_data(us, T, u, view_start_date_str, view_end_date_str) ==
    LET settings == get_settings(us, u)
        view_start_dt == Strptime(view_start_date_str)
        view_end_dt == Strptime(view_end_date_str)
    IN  IF settings = NoSettings THEN EmptyFrame
        ELSE IF view_start_dt = ValueError \/ view_end_dt = ValueError
        THEN [raised |-> "ValueError", columns |-> {}, rows |-> <<>>]
        ELSE LET loaded == get_all_transactions_after(T, u, settings.start_date)
                 n == IF view_end_dt >= view_start_dt
                      THEN view_end_dt - view_start_dt + 1 ELSE 0
                 merged == [i \in 1..n |-> MergedRow(loaded, view_start_dt + i - 1)]
             IN  [raised |-> "", columns |-> CalendarColumns,
                  rows |-> Finish(merged, 1, settings.start_balance, settings)]

\* ------------------------------------------------------------ input sets

\* The owner whose requests Spec and SpecCalendar explore.
Actors == {"A"}

\* What date.today() may return when an owner signs in.
Todays == {0, 31}
StartBalances == {100}
SettingsDates == {0, 31}

\* Rules a client may post, as (frequency, start date, end date, amount);
\* "yearly" is outside the enumeration, and one rule ends before it starts.
RuleInputs ==
    {<<"daily", 58, 60, -50>>,
     <<"weekly", 30, 59, -50>>,
     <<"bi-weekly", 30, NoDate, 20>>,
     <<"monthly", 30, NoDate, -50>>,
     <<"monthly", 0, 59, -50>>,
     <<"monthly", 60, 59, -50>>,
     <<"bi-monthly", 30, NoDate, -50>>,
     <<"yearly", 30, NoDate, -50>>}

\* The rule of the calendar scenarios.
CalendarRuleInputs == {<<"monthly", 0, NoDate, -50>>}

\* One-off instances a client may post.
TxnDates == {0, 45, 60}
TxnAmounts == {-30, 0, 20}

\* New dates and amounts a client may put on an instance.
EditDates == {10, 75}
EditAmounts == {5}

\* Horizons the engine is called with directly.
Horizons == {29, 59, MaxDate}
CalendarHorizons == {60}

\* View windows, as (first day, last day).
Views == {<<0, 60>>, <<31, 61>>, <<40, 50>>}

\* Request arguments that are absent, and ones that are no date.
Missing == [y |-> 0, m |-> 0, d |-> 0, tail |-> "missing"]
Malformed == [y |-> 2024, m |-> 2, d |-> 30, tail |-> ""]

\* ---------------------------------------------------------------- history

NoOp == [op |-> "none", user |-> "", a |-> NoDate, b |-> NoDate]
NoResp == [status |-> "", columns |-> {}, rows |-> <<>>]
Answer(status) == [status |-> status, columns |-> {}, rows |-> <<>>]

\* Every permutation of a finite set, as sequences.
RECURSIVE Orders(_)
Orders(X) ==
    IF X = {} THEN {<<>>}
    ELSE UNION {{<<x>> \o o : o \in Orders(X \ {x})} : x \in X}

\* The rule each instance added between T and T2 was made for.
Made(T, T2) ==
    [i \in {t.transaction_id : t \in T2 \ T} |->
        LET t == CHOOSE x \in T2 : x.transaction_id = i
        IN  CHOOSE s \in schedules : s.schedule_id = t.schedule_id]

\* An instance without its SERIAL id, and a table as the bag of those.
StripId(t) ==
    [user_id |-> t.user_id, schedule_id |-> t.schedule_id,
     category_id |-> t.category_id, date |-> t.date,
     description |-> t.description, amount |-> t.amount,
     is_confirmed |-> t.is_confirmed]

Content(T) ==
    [k \in {StripId(t) : t \in T} |-> Cardinality({t \in T : StripId(t) = k})]

\* The instances the Projector made for rule sid, whatever became of them.
GeneratedFrom(T, sid) ==
    {t \in T : /\ t.transaction_id \in DOMAIN origin
               /\ origin[t.transaction_id].schedule_id = sid}

\* Request workers that may each be inside run_projection.
Workers == {1, 2}

NoRule == [schedule_id |-> NULL, user_id |-> "", category_id |-> NULL,
           description |-> "", amount |-> 0, frequency |-> "",
           start_date |-> NoDate, end_date |-> NoDate]

IdleProc == [pc |-> "idle", user |-> "", projection_end_date |-> NoDate,
             todo |-> <<>>, schedule |-> NoRule, current_date |-> NoDate,
             loop_end_date |-> NoDate]

\* ---------------------------------------------------------------- actions

Init ==
    /\ users = {}
    /\ user_settings = [u \in Owners |-> NoSettings]
    /\ schedules = {}
    /\ transactions = {}
    /\ nextScheduleId = 1
    /\ nextTxnId = 1
    /\ resp = NoResp
    /\ lastOp = NoOp
    /\ snap = {}
    /\ origin = <<>>
    /\ edits = 0
    /\ procs = [p \in Workers |-> IdleProc]
    /\ categories = {}
    /\ nextCategoryId = 1

\* database.get_or_create_user for an owner signing in for the first time:
\* the users row, the default settings (balance 0, start date today) and
\* the default categories.
GetOrCreateUser(u, today) ==
    /\ u \notin users
    /\ users' = users \cup {u}
    /\ user_settings' = [user_settings EXCEPT ![u] =
                            [start_balance |-> 0, start_date |-> today]]
    /\ categories' = categories \cup
          {[category_id |-> nextCategoryId + i - 1, user_id |-> u,
            name |-> default_categories[i][1], type |-> default_categories[i][2]] :
           i \in 1..Len(default_categories)}
    /\ nextCategoryId' = nextCategoryId + Len(default_categories)
    /\ resp' = Answer("returned")
    /\ lastOp' = [NoOp EXCEPT !.op = "get_or_create_user", !.user = u]
    /\ snap' = {}
    /\ UNCHANGED <<procs, schedules, transactions, nextScheduleId, nextTxnId, origin, edits>>

\* POST /api/settings -> database.update_settings: an UPDATE, which changes
\* nothing when the owner has no row.
UpdateSettings(u, start_balance, start_date) ==
    /\ user_settings' = IF user_settings[u] = NoSettings THEN user_settings
                        ELSE [user_settings EXCEPT ![u] =
                                [start_balance |-> start_balance,
                                 start_date |-> start_date]]
    /\ resp' = Answer("200")
    /\ lastOp' = [NoOp EXCEPT !.op = "update_settings", !.user = u]
    /\ snap' = {}
    /\ UNCHANGED <<categories, nextCategoryId, procs, users, schedules, transactions, nextScheduleId, nextTxnId,
                   origin, edits>>

\* POST /api/schedules -> database.add_scheduled_transaction.  No field is
\* validated; the insert fails only on the foreign keys to users and
\* categories, and the SERIAL is advanced either way.
AddSchedule(u, category_id, description, amount, frequency, start_date, end_date) ==
    /\ nextScheduleId <= MaxRules
    /\ nextScheduleId' = nextScheduleId + 1
    /\ IF u \in users /\ CategoryExists(categories, category_id)
       THEN /\ schedules' = schedules \cup
                   {[schedule_id |-> nextScheduleId, user_id |-> u,
                     category_id |-> category_id, description |-> description,
                     amount |-> amount, frequency |-> frequency,
                     start_date |-> start_date, end_date |-> end_date]}
            /\ resp' = Answer("201")
       ELSE /\ schedules' = schedules
            /\ resp' = Answer("400")
    /\ lastOp' = [NoOp EXCEPT !.op = "add_schedule", !.user = u]
    /\ snap' = {}
    /\ UNCHANGED <<categories, nextCategoryId, procs, users, user_settings, transactions, nextTxnId, origin, edits>>

\* POST /api/transactions -> database.add_transaction without a rule id.
AddTransaction(u, date, category_id, description, amount, is_confirmed) ==
    /\ nextTxnId <= MaxTxnId
    /\ edits < MaxEdits
    /\ edits' = edits + 1
    /\ nextTxnId' = nextTxnId + 1
    /\ IF u \in users /\ CategoryExists(categories, category_id)
       THEN /\ transactions' = add_transaction(transactions, nextTxnId, u, date,
                                   category_id, description, amount,
                                   is_confirmed, NULL)
            /\ resp' = Answer("201")
       ELSE /\ transactions' = transactions
            /\ resp' = Answer("400")
    /\ lastOp' = [NoOp EXCEPT !.op = "add_transaction", !.user = u]
    /\ snap' = {}
    /\ UNCHANGED <<categories, nextCategoryId, procs, users, user_settings, schedules, nextScheduleId, origin>>

\* engine.run_projection called with a horizon.
RunProjection(u, projection_end_date_str) ==
    \E order \in Orders(get_scheduled_transactions(schedules, u)) :
        LET r == run_projection(transactions, nextTxnId, u,
                                projection_end_date_str, order)
        IN  /\ r.nextId - 1 <= MaxTxnId
            /\ transactions' = r.txns
            /\ nextTxnId' = r.nextId
            /\ origin' = origin @@ Made(transactions, r.txns)
            /\ resp' = Answer(IF r.raised = "" THEN "returned" ELSE r.raised)
            /\ lastOp' = [op |-> "run_projection", user |-> u,
                          a |-> Strptime(projection_end_date_str), b |-> NoDate]
            /\ snap' = transactions
            /\ UNCHANGED <<categories, nextCategoryId, procs, users, user_settings, schedules, nextScheduleId, edits>>

\* engine.get_calendar_data called with a view window.
GetCalendarData(u, view_start_date_str, view_end_date_str) ==
    LET df == get_calendar_data(user_settings, transactions, u,
                                view_start_date_str, view_end_date_str)
    IN  /\ resp' = [status |-> IF df.raised = "" THEN "returned" ELSE df.raised,
                    columns |-> df.columns, rows |-> df.rows]
        /\ lastOp' = [op |-> "get_calendar_data", user |-> u,
                      a |-> Strptime(view_start_date_str),
                      b |-> Strptime(view_end_date_str)]
        /\ snap' = {}
        /\ UNCHANGED <<categories, nextCategoryId, procs, users, user_settings, schedules, transactions,
                       nextScheduleId, nextTxnId, origin, edits>>

\* GET /api/calendar_data?start=..&end=..
CalendarRequest(u, start_date, end_date) ==
    \E order \in Orders(get_scheduled_transactions(schedules, u)) :
        LET end_dt == Strptime(end_date)
            projection_end_date ==
                IF end_dt = ValueError THEN Malformed
                ELSE IsoDateTime(AddYears(end_dt, 2))
            r == IF end_dt = ValueError
                 THEN [txns |-> transactions, nextId |-> nextTxnId,
                       raised |-> "ValueError"]
                 ELSE run_projection(transactions, nextTxnId, u,
                                     projection_end_date, order)
            df == get_calendar_data(user_settings, r.txns, u, start_date, end_date)
            absent == start_date = Missing \/ end_date = Missing
        IN  /\ r.nextId - 1 <= MaxTxnId
            /\ transactions' = IF absent THEN transactions ELSE r.txns
            /\ nextTxnId' = IF absent THEN nextTxnId ELSE r.nextId
            /\ origin' = IF absent THEN origin
                         ELSE origin @@ Made(transactions, r.txns)
            /\ resp' = IF absent THEN Answer("400")
                       ELSE IF r.raised # "" \/ df.raised # "" THEN Answer("500")
                       ELSE IF "date" \notin df.columns THEN Answer("500")
                       ELSE [status |-> "200", columns |-> df.columns,
                             rows |-> df.rows]
            /\ lastOp' = [op |-> "calendar_request", user |-> u,
                          a |-> Strptime(start_date), b |-> end_dt]
            /\ snap' = transactions
            /\ UNCHANGED <<categories, nextCategoryId, procs, users, user_settings, schedules, nextScheduleId, edits>>

\* PUT /api/transactions/<id> -> database.update_transaction
UpdateTransaction(u, id, date, category_id, description, amount, is_confirmed) ==
    /\ edits < MaxEdits
    /\ edits' = edits + 1
    /\ IF CategoryExists(categories, category_id)
       THEN /\ transactions' = update_transaction(transactions, u, id, date,
                                    category_id, description, amount, is_confirmed)
            /\ resp' = Answer("200")
       ELSE /\ transactions' = transactions
            /\ resp' = Answer("400")
    /\ lastOp' = [NoOp EXCEPT !.op = "update_transaction", !.user = u]
    /\ snap' = transactions
    /\ UNCHANGED <<categories, nextCategoryId, procs, users, user_settings, schedules, nextScheduleId, nextTxnId, origin>>

\* DELETE /api/transactions/<id> -> database.delete_transaction
DeleteTransaction(u, id) ==
    /\ edits < MaxEdits
    /\ edits' = edits + 1
    /\ transactions' = delete_transaction(transactions, u, id)
    /\ resp' = Answer("200")
    /\ lastOp' = [NoOp EXCEPT !.op = "delete_transaction", !.user = u]
    /\ snap' = transactions
    /\ UNCHANGED <<categories, nextCategoryId, procs, users, user_settings, schedules, nextScheduleId, nextTxnId, origin>>

\* DELETE /api/schedules/<id>?delete_future=.. -> database.delete_scheduled_transaction
DeleteSchedule(u, sid, delete_future) ==
    LET r == delete_scheduled_transaction(schedules, transactions, u, sid, delete_future)
    IN  /\ edits < MaxEdits
        /\ edits' = edits + 1
        /\ schedules' = r.schedules
        /\ transactions' = r.txns
        /\ resp' = Answer("200")
        /\ lastOp' = [op |-> "delete_schedule", user |-> u, a |-> sid,
                      b |-> IF delete_future THEN 1 ELSE 0]
        /\ snap' = {}
        /\ UNCHANGED <<categories, nextCategoryId, procs, users, user_settings, nextScheduleId, nextTxnId, origin>>

\* POST /api/categories -> database.add_category; the insert fails on the
\* foreign key to users, the SERIAL advanced either way.
AddCategory(u, name, type) ==
    /\ nextCategoryId <= MaxCategoryId
    /\ edits < MaxEdits
    /\ edits' = edits + 1
    /\ nextCategoryId' = nextCategoryId + 1
    /\ IF u \in users
       THEN /\ categories' = add_category(categories, nextCategoryId, u, name, type)
            /\ resp' = Answer("201")
       ELSE /\ categories' = categories
            /\ resp' = Answer("400")
    /\ lastOp' = [NoOp EXCEPT !.op = "add_category", !.user = u]
    /\ snap' = {}
    /\ UNCHANGED <<procs, users, user_settings, schedules, transactions,
                   nextScheduleId, nextTxnId, origin>>

\* PUT /api/categories/<id> -> database.update_category
UpdateCategory(u, category_id, name, type) ==
    /\ edits < MaxEdits
    /\ edits' = edits + 1
    /\ categories' = update_category(categories, u, category_id, name, type)
    /\ resp' = Answer("200")
    /\ lastOp' = [NoOp EXCEPT !.op = "update_category", !.user = u]
    /\ snap' = {}
    /\ UNCHANGED <<nextCategoryId, procs, users, user_settings, schedules,
                   transactions, nextScheduleId, nextTxnId, origin>>

\* DELETE /api/categories/<id> -> database.delete_category
DeleteCategory(u, category_id) ==
    LET r == delete_category(categories, schedules, transactions, u, category_id)
    IN  /\ edits < MaxEdits
        /\ edits' = edits + 1
        /\ categories' = r.categories
        /\ schedules' = r.schedules
        /\ transactions' = r.txns
        /\ resp' = Answer("200")
        /\ lastOp' = [NoOp EXCEPT !.op = "delete_category", !.user = u]
        /\ snap' = {}
        /\ UNCHANGED <<nextCategoryId, procs, users, user_settings,
                       nextScheduleId, nextTxnId, origin>>

\* database.get_all_transactions_after called for an owner: the rows it
\* returns, ORDER BY t.date, t.transaction_id.
GetAllTransactionsAfter(u, date) ==
    /\ resp' = [status |-> "returned", columns |-> {},
                rows |-> OrderByDateId(LeftJoinCategories(
                             get_all_transactions_after(transactions, u, date),
                             categories))]
    /\ lastOp' = [NoOp EXCEPT !.op = "get_all_transactions_after", !.user = u,
                              !.a = date]
    /\ snap' = {}
    /\ UNCHANGED <<categories, nextCategoryId, procs, users, user_settings,
                   schedules, transactions, nextScheduleId, nextTxnId, origin,
                   edits>>

\* run_projection statement by statement, for a worker p.  Every database
\* call is one step: the connection autocommits and nothing holds a lock
\* from one statement to the next.

\* Lines 15-16: the rules are read and the horizon parsed.
ProjBegin(p, u, projection_end_date_str) ==
    /\ procs[p].pc = "idle"
    /\ Strptime(projection_end_date_str) # ValueError
    /\ \E order \in Orders(get_scheduled_transactions(schedules, u)) :
          procs' = [procs EXCEPT ![p] =
                       [IdleProc EXCEPT !.pc = "for", !.user = u,
                            !.projection_end_date = Strptime(projection_end_date_str),
                            !.todo = order]]
    /\ UNCHANGED <<categories, nextCategoryId, users, user_settings, schedules, transactions, nextScheduleId,
                   nextTxnId, resp, lastOp, snap, origin, edits>>

\* Lines 18-54: the next rule, its watermark read from the store, its
\* starting cursor and its loop end; or the return when no rule is left.
ProjFor(p) ==
    /\ procs[p].pc = "for"
    /\ procs' = [procs EXCEPT ![p] =
          IF procs[p].todo = <<>> THEN IdleProc
          ELSE LET s == Head(procs[p].todo)
               IN  [procs[p] EXCEPT
                       !.pc = "while", !.todo = Tail(procs[p].todo),
                       !.schedule = s,
                       !.current_date = StartCursor(transactions, procs[p].user, s),
                       !.loop_end_date = LoopEndDate(s, procs[p].projection_end_date)]]
    /\ UNCHANGED <<categories, nextCategoryId, users, user_settings, schedules, transactions, nextScheduleId,
                   nextTxnId, resp, lastOp, snap, origin, edits>>

\* Lines 57-82: one iteration of the while loop, or its exit.
ProjWhile(p) ==
    LET me == procs[p]
        s == me.schedule
        add == me.current_date >= s.start_date
        T2 == add_transaction(transactions, nextTxnId, me.user,
                              Strptime(IsoDate(me.current_date)), s.category_id,
                              s.description, s.amount, 0, s.schedule_id)
    IN  /\ me.pc = "while"
        /\ IF me.current_date > me.loop_end_date
           THEN /\ procs' = [procs EXCEPT ![p].pc = "for"]
                /\ UNCHANGED <<transactions, nextTxnId, origin>>
           ELSE /\ add => nextTxnId <= MaxTxnId
                /\ transactions' = IF add THEN T2 ELSE transactions
                /\ nextTxnId' = IF add THEN nextTxnId + 1 ELSE nextTxnId
                /\ origin' = IF add THEN origin @@ Made(transactions, T2) ELSE origin
                /\ procs' = [procs EXCEPT ![p] =
                      IF s.frequency \in Frequencies
                      THEN [me EXCEPT !.current_date =
                                          StepDate(s.frequency, me.current_date)]
                      ELSE [me EXCEPT !.pc = "for"]]
        /\ UNCHANGED <<categories, nextCategoryId, users, user_settings, schedules, nextScheduleId, resp,
                       lastOp, snap, edits>>

\* Lines 59-68 when the INSERT fails in the store: add_transaction raises,
\* nothing in run_projection catches it, and the call ends there with the
\* rules still in todo untouched.
ProjRaise(p) ==
    LET me == procs[p]
    IN  /\ me.pc = "while"
        /\ me.current_date <= me.loop_end_date
        /\ me.current_date >= me.schedule.start_date
        /\ procs' = [procs EXCEPT ![p] = IdleProc]
        /\ resp' = Answer("Error")
        /\ lastOp' = [op |-> "run_projection_raised", user |-> me.user,
                      a |-> me.projection_end_date,
                      b |-> me.schedule.schedule_id]
        /\ snap' = {}
        /\ UNCHANGED <<categories, nextCategoryId, users, user_settings, schedules, transactions,
                       nextScheduleId, nextTxnId, origin, edits>>

Next ==
    \/ \E u \in Actors : GetOrCreateUser(u, 0)
    \/ \E u \in Actors, r \in RuleInputs :
          AddSchedule(u, NULL, "rule", r[4], r[1], r[2], r[3])
    \/ \E u \in Actors, c \in {0, 1} : AddTransaction(u, 59, NULL, "one-off", 20, c)
    \/ \E u \in Actors, h \in Horizons : RunProjection(u, IsoDate(h))
    \/ \E u \in Actors, t \in transactions, d \in EditDates, am \in EditAmounts,
          c \in {0, 1} :
          \/ UpdateTransaction(u, t.transaction_id, t.date, t.category_id,
                               "edited", am, c)
          \/ UpdateTransaction(u, t.transaction_id, d, t.category_id,
                               t.description, t.amount, t.is_confirmed)
    \/ \E u \in Actors, t \in transactions : DeleteTransaction(u, t.transaction_id)
    \/ \E u \in Actors, s \in schedules, df \in BOOLEAN :
          DeleteSchedule(u, s.schedule_id, df)

Spec == Init /\ [][Next]_vars

NextCalendar ==
    \/ \E u \in Actors, today \in Todays : GetOrCreateUser(u, today)
    \/ \E u \in Actors, sb \in StartBalances, sd \in SettingsDates :
          UpdateSettings(u, sb, sd)
    \/ \E u \in Actors, r \in CalendarRuleInputs :
          AddSchedule(u, NULL, "rule", r[4], r[1], r[2], r[3])
    \/ \E u \in Actors, d \in TxnDates, am \in TxnAmounts, c \in {0, 1} :
          AddTransaction(u, d, NULL, "one-off", am, c)
    \/ \E u \in Actors, h \in CalendarHorizons : RunProjection(u, IsoDate(h))
    \/ \E u \in Actors, t \in transactions :
          UpdateTransaction(u, t.transaction_id, t.date, t.category_id,
                            t.description, t.amount, 1)
    \/ \E u \in Actors, v \in Views :
          GetCalendarData(u, IsoDate(v[1]), IsoDate(v[2]))
    \/ \E u \in Actors, v \in Views :
          \E sa \in {Missing, IsoDate(v[1])}, ea \in {Malformed, IsoDate(v[2])} :
              CalendarRequest(u, sa, ea)

SpecCalendar == Init /\ [][NextCalendar]_vars

\* Rules and horizons of the concurrent runs: known frequencies only.
ConcurrentRuleInputs ==
    {<<"monthly", 30, NoDate, -50>>, <<"weekly", 30, 59, -50>>}
ConcurrentHorizons == {59, MaxDate}

NextConcurrent ==
    \/ \E u \in Actors : GetOrCreateUser(u, 0)
    \/ \E u \in Actors, r \in ConcurrentRuleInputs :
          AddSchedule(u, NULL, "rule", r[4], r[1], r[2], r[3])
    \/ \E p \in Workers, u \in Actors, h \in ConcurrentHorizons :
          ProjBegin(p, u, IsoDate(h))
    \/ \E p \in Workers : ProjFor(p)
    \/ \E p \in Workers : ProjWhile(p)

SpecConcurrent == Init /\ [][NextConcurrent]_vars

\* One request worker whose inserts may fail in the store.
NextFailure ==
    \/ \E u \in Actors : GetOrCreateUser(u, 0)
    \/ \E u \in Actors, r \in ConcurrentRuleInputs :
          AddSchedule(u, NULL, "rule", r[4], r[1], r[2], r[3])
    \/ \E u \in Actors, h \in ConcurrentHorizons : ProjBegin(1, u, IsoDate(h))
    \/ ProjFor(1)
    \/ ProjWhile(1)
    \/ ProjRaise(1)

SpecFailure == Init /\ [][NextFailure]_vars

\* One request worker whose runs are always carried to their end.  A run
\* is started only with room for MaxPerRule instances of every rule, which
\* the rules and the horizon here never exceed.
TerminationRuleInputs ==
    {<<"monthly", 30, NoDate, -50>>,
     <<"bi-monthly", 30, NoDate, -50>>,
     <<"yearly", 30, NoDate, -50>>}
TerminationHorizons == {59}

RoomFor(u) ==
    nextTxnId + Cardinality(get_scheduled_transactions(schedules, u)) * MaxPerRule - 1
        <= MaxTxnId

NextTermination ==
    \/ \E u \in Actors : GetOrCreateUser(u, 0)
    \/ \E u \in Actors, r \in TerminationRuleInputs :
          AddSchedule(u, NULL, "rule", r[4], r[1], r[2], r[3])
    \/ \E u \in Actors, h \in TerminationHorizons :
          RoomFor(u) /\ ProjBegin(1, u, IsoDate(h))
    \/ ProjFor(1)
    \/ ProjWhile(1)

\* run_projection is one sequential call: once begun, its next statement is
\* always executed.
SpecTermination ==
    /\ Init /\ [][NextTermination]_vars
    /\ WF_vars(ProjFor(1)) /\ WF_vars(ProjWhile(1))

\* Two owners side by side.  Category ids a client may name: the first
\* default category of the owner who signed in first, and of the second.
CategoryInputs == {1, 1 + Len(default_categories)}
OwnerRuleInputs == {<<"monthly", 30, NoDate, -50>>}
OwnerHorizons == {59}

NextOwners ==
    \/ \E u \in Owners : GetOrCreateUser(u, 0)
    \/ \E u \in Owners : UpdateSettings(u, 100, 0)
    \/ \E u \in Owners, r \in OwnerRuleInputs, c \in CategoryInputs :
          AddSchedule(u, c, "rule", r[4], r[1], r[2], r[3])
    \/ \E u \in Owners, c \in CategoryInputs :
          AddTransaction(u, 45, c, "one-off", 20, 0)
    \/ \E u \in Owners, h \in OwnerHorizons : RunProjection(u, IsoDate(h))
    \/ \E u \in Owners, t \in transactions :
          UpdateTransaction(u, t.transaction_id, t.date, t.category_id,
                            "edited", 5, 1)
    \/ \E u \in Owners, t \in transactions : DeleteTransaction(u, t.transaction_id)
    \/ \E u \in Owners, s \in schedules :
          DeleteSchedule(u, s.schedule_id, TRUE)
    \/ \E u \in Owners : AddCategory(u, "Other", "debit")
    \/ \E u \in Owners, c \in CategoryInputs :
          UpdateCategory(u, c, "Renamed", "credit")
    \/ \E u \in Owners, c \in CategoryInputs : DeleteCategory(u, c)
    \/ \E u \in Owners : GetAllTransactionsAfter(u, 0)

SpecOwners == Init /\ [][NextOwners]_vars

\* ------------------------------------------------------ calendar claims

\* The last operation was engine.get_calendar_data and it returned a frame.
CalendarReturned ==
    /\ lastOp.op = "get_calendar_data"
    /\ resp.status = "returned"
    /\ user_settings[lastOp.user] # NoSettings

\* What the store holds for owner a.
OwnedBy(R, a) == {r \in R : r.user_id = a}

\* The owner's instances dated from lo to hi.
InstancesIn(u, lo, hi) ==
    {t \in transactions : t.user_id = u /\ lo <= t.date /\ t.date <= hi}

\* C1: for every day d of the returned series on or after the settings
\* start date, balance(d) is the start balance plus the amounts of all the
\* owner's instances dated from the start date to d, whatever the view.
C1_BalanceFromStartDate ==
    CalendarReturned =>
        LET st == user_settings[lastOp.user]
        IN  \A i \in 1..Len(resp.rows) :
                resp.rows[i].date >= st.start_date =>
                    resp.rows[i].balance =
                        st.start_balance
                        + SumAmounts(InstancesIn(lastOp.user, st.start_date,
                                                 resp.rows[i].date))

\* C6: for every day d of the returned series on or after the settings
\* start date, is_actual(d) holds exactly when every instance of the owner
\* dated d is confirmed; a day without instances is actual.
C6_ActualIffAllConfirmed ==
    CalendarReturned =>
        LET st == user_settings[lastOp.user]
        IN  \A i \in 1..Len(resp.rows) :
                resp.rows[i].date >= st.start_date =>
                    (resp.rows[i].is_actual <=>
                        \A t \in InstancesIn(lastOp.user, resp.rows[i].date,
                                             resp.rows[i].date) :
                            t.is_confirmed = 1)

\* C7: a calendar-view request with well-formed dates by an owner who has
\* Settings runs the projection to the end of the view plus the forward
\* buffer, and answers 200 with the series computed over the projected store.
C7_RequestAnswersSeries ==
    (/\ lastOp.op = "calendar_request"
     /\ lastOp.a # ValueError /\ lastOp.b # ValueError
     /\ user_settings[lastOp.user] # NoSettings)
    => /\ resp.status = "200"
       /\ resp.rows = get_calendar_data(user_settings, transactions, lastOp.user,
                                        IsoDate(lastOp.a), IsoDate(lastOp.b)).rows
       /\ \A o \in Orders(get_scheduled_transactions(schedules, lastOp.user)) :
              Content(transactions) =
                  Content(run_projection(snap, nextTxnId, lastOp.user,
                                         IsoDate(AddYears(lastOp.b, 2)), o).txns)

\* C10: without Settings the calendar is an empty sequence and no failure,
\* from engine.get_calendar_data and from the calendar-view request alike.
C10_NoSettingsEmptyNotFailure ==
    (/\ lastOp.op \in {"get_calendar_data", "calendar_request"}
     /\ lastOp.a # ValueError /\ lastOp.b # ValueError
     /\ user_settings[lastOp.user] = NoSettings)
    => /\ resp.status \in {"returned", "200"}
       /\ resp.rows = <<>>

\* C14: every day of the returned series before the settings start date has
\* balance 0 and is_actual true, whatever instances the owner has and
\* whatever their confirmation flags.
C14_PreStartNeutral ==
    CalendarReturned =>
        \A i \in 1..Len(resp.rows) :
            resp.rows[i].date < user_settings[lastOp.user].start_date =>
                resp.rows[i].balance = 0 /\ resp.rows[i].is_actual

\* C14 witness: a series was returned that has a day before the start
\* date, the start balance is not 0, and an unconfirmed instance is dated
\* before the start date inside the view.
C14_Witness ==
    /\ CalendarReturned
    /\ user_settings[lastOp.user].start_balance # 0
    /\ \E i \in 1..Len(resp.rows) :
          /\ resp.rows[i].date < user_settings[lastOp.user].start_date
          /\ \E t \in InstancesIn(lastOp.user, resp.rows[i].date, resp.rows[i].date) :
                t.is_confirmed = 0 /\ t.amount # 0

\* C27: every day of the returned series before the settings start date has
\* credits, debits and net_change 0, also when the owner has instances
\* dated that day.
C27_PreStartNoAmounts ==
    CalendarReturned =>
        \A i \in 1..Len(resp.rows) :
            resp.rows[i].date < user_settings[lastOp.user].start_date =>
                /\ resp.rows[i].credits = 0
                /\ resp.rows[i].debits = 0
                /\ resp.rows[i].net_change = 0

\* C27 witness: a series was returned with a day before the start date on
\* which the owner has a credit, and a day from the start date on whose
\* instances were counted.
C27_Witness ==
    /\ CalendarReturned
    /\ \E i \in 1..Len(resp.rows) :
          /\ resp.rows[i].date < user_settings[lastOp.user].start_date
          /\ \E t \in InstancesIn(lastOp.user, resp.rows[i].date, resp.rows[i].date) :
                t.amount > 0
    /\ \E j \in 1..Len(resp.rows) :
          /\ resp.rows[j].date >= user_settings[lastOp.user].start_date
          /\ resp.rows[j].net_change # 0

\* C15: for adjacent days d, d+1 of the returned series, both on or after
\* the settings start date, balance(d+1) = balance(d) + net_change(d+1).
C15_BalanceContinuity ==
    CalendarReturned =>
        \A i \in 1..(Len(resp.rows) - 1) :
            resp.rows[i].date >= user_settings[lastOp.user].start_date =>
                resp.rows[i + 1].balance
                    = resp.rows[i].balance + resp.rows[i + 1].net_change

\* C15 witness: a returned series with two adjacent days on or after the
\* start date, both with a net change other than 0.
C15_Witness ==
    /\ CalendarReturned
    /\ \E i \in 1..(Len(resp.rows) - 1) :
          /\ resp.rows[i].date >= user_settings[lastOp.user].start_date
          /\ resp.rows[i + 1].date = resp.rows[i].date + 1
          /\ resp.rows[i + 1].net_change # 0
          /\ resp.rows[i].balance # user_settings[lastOp.user].start_balance

\* C16: when Settings exist, the returned series has exactly one entry for
\* every day from view_start to view_end, in ascending date order.
C16_GapFreeGrid ==
    CalendarReturned =>
        /\ Len(resp.rows) = lastOp.b - lastOp.a + 1
        /\ \A i \in 1..Len(resp.rows) : resp.rows[i].date = lastOp.a + i - 1

\* C16 witness: a series was returned for a view that holds days with
\* instances and days without, the last day being one with an instance.
C16_Witness ==
    /\ CalendarReturned
    /\ lastOp.a < lastOp.b
    /\ InstancesIn(lastOp.user, lastOp.b, lastOp.b) # {}
    /\ InstancesIn(lastOp.user, lastOp.a, lastOp.a) = {}
    /\ Len(resp.rows) > 1

\* The dates of the scenario.
Jan1 == ToOrdinal(2024, 1, 1)
Feb1 == ToOrdinal(2024, 2, 1)
Mar1 == ToOrdinal(2024, 3, 1)

\* The scenario's state: start date Jan 1, start balance 100, the owner's
\* only rule monthly, -50, from Jan 1 without end, the owner's instances
\* those run_projection(Mar 1) makes from an empty store, and the calendar
\* just returned for the view [Jan 1, Mar 1].
ScenarioReturned ==
    /\ CalendarReturned
    /\ lastOp.a = Jan1 /\ lastOp.b = Mar1
    /\ user_settings[lastOp.user] = [start_balance |-> 100, start_date |-> Jan1]
    /\ \E s \in get_scheduled_transactions(schedules, lastOp.user) :
          /\ get_scheduled_transactions(schedules, lastOp.user) = {s}
          /\ s.frequency = "monthly" /\ s.amount = -50
          /\ s.start_date = Jan1 /\ s.end_date = NoDate
          /\ Content(OwnedBy(transactions, lastOp.user))
                = Content(run_projection({}, 1, lastOp.user, IsoDate(Mar1), <<s>>).txns)

\* C18: in the scenario the balance is 50 on Jan 1, 0 on Feb 1 and -50 on
\* Mar 1, every other day repeats the previous day's balance, and is_actual
\* is false on exactly those three days.
C18_Scenario ==
    ScenarioReturned =>
        LET row(d) == resp.rows[d - Jan1 + 1]
        IN  /\ Len(resp.rows) = Mar1 - Jan1 + 1
            /\ row(Jan1).balance = 50
            /\ row(Feb1).balance = 0
            /\ row(Mar1).balance = -50
            /\ \A d \in (Jan1 + 1)..Mar1 :
                  d \notin {Feb1, Mar1} => row(d).balance = row(d - 1).balance
            /\ \A d \in Jan1..Mar1 :
                  row(d).is_actual <=> d \notin {Jan1, Feb1, Mar1}

\* C18 witness: the scenario's calendar was returned, three instances in
\* the store.
C18_Witness ==
    /\ ScenarioReturned
    /\ Cardinality(OwnedBy(transactions, lastOp.user)) = 3
    /\ resp.rows[Len(resp.rows)].date = Mar1

\* C19: for every day d of the returned series on or after the settings
\* start date, credits(d) is the sum of the amounts > 0 of the owner's
\* instances dated d, debits(d) the sum of their amounts <= 0, and
\* net_change(d) = credits(d) + debits(d) the sum of all their amounts; an
\* unconfirmed instance of amount 0 still makes its day not actual.
C19_CreditsDebitsNet ==
    CalendarReturned =>
        \A i \in 1..Len(resp.rows) :
            LET r == resp.rows[i]
                bucket == InstancesIn(lastOp.user, r.date, r.date)
            IN  r.date >= user_settings[lastOp.user].start_date =>
                    /\ r.credits = SumAmounts({t \in bucket : t.amount > 0})
                    /\ r.debits = SumAmounts({t \in bucket : t.amount <= 0})
                    /\ r.net_change = r.credits + r.debits
                    /\ r.net_change = SumAmounts(bucket)
                    /\ (\E t \in bucket : t.amount = 0 /\ t.is_confirmed = 0)
                          => ~r.is_actual

\* C19 witness: a returned series with a day on or after the start date
\* that has both a credit and a debit, two instances in its bucket.
C19_Witness ==
    /\ CalendarReturned
    /\ \E i \in 1..Len(resp.rows) :
          /\ resp.rows[i].date >= user_settings[lastOp.user].start_date
          /\ resp.rows[i].credits > 0 /\ resp.rows[i].debits < 0
          /\ Cardinality(InstancesIn(lastOp.user, resp.rows[i].date,
                                     resp.rows[i].date)) = 2

\* ----------------------------------------------------- projector claims

\* The owner's rules, and those among them whose frequency is known.
RulesOf(u) == get_scheduled_transactions(schedules, u)
KnownRulesOf(u) == {s \in RulesOf(u) : s.frequency \in Frequencies}

\* The dates S, step(S), step(step(S)), ... up to bound.
RECURSIVE Grid(_, _, _)
Grid(d, frequency, bound) ==
    IF d > bound THEN {}
    ELSE {d} \cup Grid(StepDate(frequency, d), frequency, bound)

\* min(horizon, E), E being absent when the rule has no end date.
EffectiveEnd(s, horizon) ==
    IF s.end_date = NoDate THEN horizon ELSE Min(horizon, s.end_date)

\* The owner's instances carrying rule id sid.
InstancesOf(T, u, sid) == {t \in T : t.user_id = u /\ t.schedule_id = sid}

\* C2: a second run_projection with the same horizon, right after the
\* first, leaves table transactions as the first run left it.
C2_SecondRunAddsNothing ==
    [][(/\ lastOp.op = "run_projection"
        /\ lastOp' = lastOp
        /\ resp.status = "returned" /\ resp'.status = "returned")
       => transactions' = transactions]_vars

\* C3: after run_projection with horizon H on a store that held no
\* instance of a rule (start S, end E, frequency F of the enumeration), the
\* dates of the rule's instances are exactly the dates S, step(S), ... that
\* lie in [S, min(H, E)], each once.
C3_GeneratedDatesAreTheGrid ==
    (lastOp.op = "run_projection" /\ resp.status = "returned") =>
        \A s \in KnownRulesOf(lastOp.user) :
            InstancesOf(snap, lastOp.user, s.schedule_id) = {} =>
                LET made == InstancesOf(transactions, lastOp.user, s.schedule_id)
                    grid == Grid(s.start_date, s.frequency,
                                 EffectiveEnd(s, lastOp.a))
                IN  /\ {t.date : t \in made} = grid
                    /\ Cardinality(made) = Cardinality(grid)

\* C3 witness: a monthly rule starting 2024-01-31 was projected from an
\* empty store and has its three instances, on Jan 31, Feb 29 and Mar 29.
C3_Witness ==
    /\ lastOp.op = "run_projection" /\ resp.status = "returned"
    /\ \E s \in KnownRulesOf(lastOp.user) :
          /\ s.frequency = "monthly" /\ s.start_date = 30
          /\ InstancesOf(snap, lastOp.user, s.schedule_id) = {}
          /\ {t.date : t \in InstancesOf(transactions, lastOp.user, s.schedule_id)}
                = {30, 59, 88}

\* C5: run_projection creates no instance for a rule whose frequency is
\* outside the enumeration, and projects the owner's other rules as if
\* that rule were absent.
C5_UnknownFrequencySkipped ==
    [][lastOp'.op = "run_projection" =>
        LET u == lastOp'.user
            bad == {s.schedule_id : s \in RulesOf(u) \ KnownRulesOf(u)}
            others(T) == {t \in T : t.schedule_id \notin bad}
        IN  /\ \A t \in transactions' \ transactions : t.schedule_id \notin bad
            /\ \A o \in Orders(KnownRulesOf(u)) :
                  Content(others(transactions')) =
                      Content(run_projection(others(transactions), nextTxnId, u,
                                             IsoDate(lastOp'.a), o).txns)]_vars

\* C8: after delete_scheduled_transaction with delete_future the store
\* holds no unconfirmed instance generated from the rule; without
\* delete_future the rule is gone and every instance generated from it is
\* still in the store.
C8_DeleteFutureRemovesUnconfirmed ==
    [][lastOp'.op = "delete_schedule" =>
        LET sid == lastOp'.a
        IN  /\ \A s \in schedules' : s.schedule_id # sid
            /\ lastOp'.b = 1 =>
                  \A t \in GeneratedFrom(transactions', sid) : t.is_confirmed # 0
            /\ lastOp'.b = 0 =>
                  \A t \in GeneratedFrom(transactions, sid) :
                      \E k \in transactions' : k.transaction_id = t.transaction_id]_vars

\* C9: run_projection(H1) followed by run_projection(H2), H1 <= H2, leaves
\* the instances that a single run_projection(H2) on the first store
\* leaves.
C9_ResumedRunEqualsSingleRun ==
    [][(/\ lastOp.op = "run_projection" /\ lastOp'.op = "run_projection"
        /\ lastOp'.user = lastOp.user
        /\ lastOp.a <= lastOp'.a
        /\ resp.status = "returned" /\ resp'.status = "returned")
       => \A o \in Orders(RulesOf(lastOp.user)) :
              Content(transactions') =
                  Content(run_projection(
                              snap,
                              nextTxnId - (Cardinality(transactions) - Cardinality(snap)),
                              lastOp.user, IsoDate(lastOp'.a), o).txns)]_vars

\* Date d is reachable from the rule's start date by repeated application
\* of its frequency step (no step at all for a frequency without one).
ReachableBySteps(s, d) ==
    IF s.frequency \in Frequencies
    THEN d \in Grid(s.start_date, s.frequency, d)
    ELSE d = s.start_date

\* C17: in every reachable state, every persisted instance whose
\* originating rule id is set has a date reachable from that rule's start
\* date by repeated application of the rule's frequency step.
C17_RuleInstancesOnGrid ==
    \A t \in transactions :
        t.schedule_id # NULL =>
            \E s \in schedules : /\ s.schedule_id = t.schedule_id
                                 /\ ReachableBySteps(s, t.date)

\* C20: every instance run_projection creates is unconfirmed, belongs to
\* the owner the projection was run for, and carries the id, category,
\* description and amount of one of that owner's rules.
C20_GeneratedCarryTheRule ==
    [][lastOp'.op = "run_projection" =>
        \A t \in transactions' \ transactions :
            /\ t.is_confirmed = 0
            /\ t.user_id = lastOp'.user
            /\ \E s \in get_scheduled_transactions(schedules, lastOp'.user) :
                  /\ t.schedule_id = s.schedule_id
                  /\ t.category_id = s.category_id
                  /\ t.description = s.description
                  /\ t.amount = s.amount]_vars

\* C20 witness: run_projection has just created instances for an owner,
\* from a rule that carries a category, while another owner has a rule too.
C20_Witness ==
    /\ lastOp.op = "run_projection"
    /\ \E t \in transactions \ snap :
          /\ t.user_id = lastOp.user
          /\ t.category_id # NULL
          /\ t.schedule_id # NULL
    /\ \E s \in schedules : s.user_id # lastOp.user

\* The day of the month of a day number, and its month counted from year 0.
DayOfMonth(n) == FromOrdinal(n)[3]
MonthIndex(n) == FromOrdinal(n)[1] * 12 + FromOrdinal(n)[2]

\* The months between two instances of a rule of that frequency.
MonthsPerStep(frequency) == IF frequency = "bi-monthly" THEN 2 ELSE 1

\* C21: the instances run_projection generates for a monthly (bi-monthly)
\* rule from a store without instances of it fall in consecutive (every
\* second) calendar months from the start month, one per month, each on
\* the start date's day of the month, or on the last day of a shorter month.
C21_MonthlyKeepsDayOfMonth ==
    (lastOp.op = "run_projection" /\ resp.status = "returned") =>
        \A s \in RulesOf(lastOp.user) :
            (/\ s.frequency \in {"monthly", "bi-monthly"}
             /\ InstancesOf(snap, lastOp.user, s.schedule_id) = {}) =>
                LET made == InstancesOf(transactions, lastOp.user, s.schedule_id)
                    n == Cardinality(made)
                IN  /\ {MonthIndex(t.date) : t \in made}
                          = {MonthIndex(s.start_date) + MonthsPerStep(s.frequency) * i :
                                i \in 0..(n - 1)}
                    /\ \A t \in made :
                          LET ymd == FromOrdinal(t.date)
                          IN  ymd[3] = Min(DayOfMonth(s.start_date),
                                           DaysInMonth(ymd[1], ymd[2]))

\* C22: run_projection only adds instances: every row of table
\* transactions before the run is there unchanged after it, and rules and
\* settings are left as they were.
C22_RunOnlyAdds ==
    [][lastOp'.op = "run_projection" =>
        /\ transactions \subseteq transactions'
        /\ schedules' = schedules
        /\ user_settings' = user_settings]_vars

\* C22 witness: a run has just added instances to a store that already
\* held a confirmed, edited instance of a rule.
C22_Witness ==
    /\ lastOp.op = "run_projection"
    /\ transactions # snap
    /\ \E t \in snap : /\ t.schedule_id # NULL
                        /\ t.is_confirmed = 1
                        /\ t.description = "edited"

\* C23: run_projection terminates.  Every iteration of a rule's loop with
\* a recognized frequency moves the cursor strictly forward under an
\* unchanged loop end, an unrecognized frequency leaves the loop at once,
\* every return to the for loop finds one rule fewer to do, and a call that
\* has begun always reaches its return.
C23_RunTerminates ==
    /\ [][\A p \in Workers :
            LET me == procs[p]
                to == procs'[p]
            IN  /\ (me.pc = "while" /\ (to # me \/ nextTxnId' # nextTxnId)) =>
                      IF me.current_date <= me.loop_end_date
                         /\ me.schedule.frequency \in Frequencies
                      THEN /\ to.pc = "while"
                           /\ to.current_date > me.current_date
                           /\ to.loop_end_date = me.loop_end_date
                           /\ to.todo = me.todo
                      ELSE to.pc = "for" /\ to.todo = me.todo
                /\ (me.pc = "for" /\ to # me) =>
                      \/ to.pc = "idle" /\ me.todo = <<>>
                      \/ to.pc = "while" /\ Len(to.todo) = Len(me.todo) - 1]_vars
    /\ (procs[1].pc # "idle") ~> (procs[1].pc = "idle")

\* C23 witness: a call has returned after going twice round the loop of a
\* monthly rule and leaving the loop of a rule of unrecognized frequency.
C23_Witness ==
    /\ procs[1].pc = "idle"
    /\ \E s1, s2 \in schedules :
          /\ s1.frequency = "monthly"
          /\ s2.frequency \notin Frequencies
          /\ Cardinality({t \in transactions : t.schedule_id = s1.schedule_id}) = 2
          /\ Cardinality({t \in transactions : t.schedule_id = s2.schedule_id}) >= 1

\* Every instance of rule s in T is dated on a step of the rule.
AllOnGrid(T, s) ==
    \A t \in {x \in T : x.schedule_id = s.schedule_id} : ReachableBySteps(s, t.date)

GeneratedAndGone == DOMAIN origin \ {t.transaction_id : t \in transactions}

RuleDatesAdded(T, T2) ==
    {<<t.schedule_id, t.date>> : t \in {x \in T2 \ T : x.schedule_id # NULL}}

\* The instances of existing rules of owner u that the last
\* update_transaction changed while leaving their date alone.
EditedInPlace(u) ==
    {t \in transactions \ snap :
        /\ t.user_id = u
        /\ \E s \in RulesOf(u) : s.schedule_id = t.schedule_id
        /\ \E o \in snap : /\ o.transaction_id = t.transaction_id
                           /\ o.date = t.date}

\* C25: when update_transaction has confirmed a generated instance or
\* changed its amount or description without changing its date, the next
\* run_projection generates for the rules exactly the dates it would have
\* generated on the unedited store, and for a rule of a recognised
\* frequency no instance on the edited instance's date or before it.
C25_EditKeepsWatermark ==
    [][(/\ lastOp.op = "update_transaction"
        /\ lastOp'.op = "run_projection" /\ lastOp'.user = lastOp.user
        /\ resp'.status = "returned"
        /\ EditedInPlace(lastOp.user) # {})
       => /\ \A t \in EditedInPlace(lastOp.user) :
                \A s \in KnownRulesOf(lastOp.user) :
                    s.schedule_id = t.schedule_id
                    => ~ \E k \in transactions' \ transactions :
                            /\ k.schedule_id = t.schedule_id
                            /\ k.date <= t.date
          /\ \E order \in Orders(RulesOf(lastOp.user)) :
                RuleDatesAdded(transactions, transactions')
                = RuleDatesAdded(snap,
                      run_projection(snap, nextTxnId, lastOp.user,
                                     IsoDate(lastOp'.a), order).txns)]_vars

\* C25 witness: a run has added instances of a rule one of whose
\* instances had been confirmed and edited on its date before the run.
C25_Witness ==
    /\ lastOp.op = "run_projection"
    /\ \E t \in snap :
          /\ t.description = "edited" /\ t.is_confirmed = 1
          /\ \E s \in KnownRulesOf(lastOp.user) : s.schedule_id = t.schedule_id
          /\ \E k \in transactions \ snap :
                k.schedule_id = t.schedule_id /\ k.date > t.date

\* The ids of the rules in table scheduled_transactions.
RuleIds == {s.schedule_id : s \in schedules}

\* The generated instances still stored whose rule has been deleted.
Survivors ==
    {t \in transactions : /\ t.transaction_id \in DOMAIN origin
                          /\ origin[t.transaction_id].schedule_id \notin RuleIds}

\* C26: a rule id is never given to a second rule; every instance a
\* run_projection creates is made for a rule the owner has at that time,
\* none for the rule delete_scheduled_transaction has just removed; and the
\* starting cursor of every rule is what it would be without the instances
\* that survive deleted rules.
C26_DeletedRuleStaysDead ==
    [][/\ \A s \in schedules' \ schedules :
             s.schedule_id >= nextScheduleId /\ s.schedule_id < nextScheduleId'
       /\ lastOp'.op = "run_projection" =>
             /\ \A k \in transactions' \ transactions :
                    \E s \in RulesOf(lastOp'.user) : s.schedule_id = k.schedule_id
             /\ (/\ lastOp.op = "delete_schedule" /\ lastOp.user = lastOp'.user
                 /\ \E i \in DOMAIN origin :
                       /\ origin[i].schedule_id = lastOp.a
                       /\ origin[i].user_id = lastOp.user)
                => \A k \in transactions' \ transactions :
                       k.schedule_id # lastOp.a
             /\ \A s \in RulesOf(lastOp'.user) :
                    StartCursor(transactions, lastOp'.user, s)
                    = StartCursor(transactions \ Survivors, lastOp'.user, s)]_vars

\* C26 witness: a run has added instances of a rule to a store that holds
\* an instance of a deleted rule dated before them.
C26_Witness ==
    /\ lastOp.op = "run_projection"
    /\ \E t \in Survivors \cap snap :
          \E k \in transactions \ snap : k.date > t.date

\* ---------------------------------------------------- concurrency claim

\* C4: whatever the interleaving of run_projection calls for one owner,
\* the store never holds two instances with the same rule id and date.
C4_NoDuplicateInstance ==
    \A t1, t2 \in transactions :
        (/\ t1.schedule_id # NULL
         /\ t1.schedule_id = t2.schedule_id
         /\ t1.date = t2.date) => t1 = t2

\* -------------------------------------------------- error-handling claims

\* C11: when projecting one rule fails inside run_projection, every sibling
\* rule of the same owner still has, when that run ends, an instance on each
\* date of its grid up to its effective end bound.
C11_SiblingsStillProjected ==
    [][lastOp'.op = "run_projection_raised" /\ procs # procs' =>
        \A s \in KnownRulesOf(lastOp'.user) :
            s.schedule_id # lastOp'.b =>
                Grid(s.start_date, s.frequency, EffectiveEnd(s, lastOp'.a))
                    \subseteq {t.date : t \in InstancesOf(transactions',
                                                         lastOp'.user,
                                                         s.schedule_id)}]_vars

\* C12: persisting an instance for a rule id and date for which the store
\* already holds an instance is rejected and leaves the store unchanged: no
\* step of a projection run, retried or re-entered, adds a row whose rule id
\* and date an existing row already carries.
C12_ConflictIsNoOp ==
    [][\A t \in transactions' \ transactions :
          t.schedule_id # NULL =>
              ~\E k \in transactions : /\ k.user_id = t.user_id
                                       /\ k.schedule_id = t.schedule_id
                                       /\ k.date = t.date]_vars

\* ------------------------------------------------------- isolation claim

\* The calendar computed for owner a.
SeriesOf(us, T, a) == get_calendar_data(us, T, a, IsoDate(30), IsoDate(59)).rows

\* C13: an operation performed by one owner changes no instance, rule or
\* settings of another owner and no value of the other owner's calendar
\* series, and what an owner's read returns belongs to that owner.
C13_OwnerIsolation ==
    [][\A a \in Owners :
          /\ lastOp'.user # a =>
                /\ OwnedBy(transactions', a) = OwnedBy(transactions, a)
                /\ OwnedBy(schedules', a) = OwnedBy(schedules, a)
                /\ user_settings'[a] = user_settings[a]
                /\ SeriesOf(user_settings', transactions', a)
                      = SeriesOf(user_settings, transactions, a)
          /\ (lastOp'.user = a /\ lastOp'.op = "get_all_transactions_after") =>
                \A i \in 1..Len(resp'.rows) :
                    /\ resp'.rows[i].user_id = a
                    /\ \A k \in categories :
                          k.category_id = resp'.rows[i].category_id
                              => k.user_id = a]_vars

====
